---- MODULE Spec2Model ----
(***************************************************************************)
(* State-machine model of the tetra-detector sampling loop                 *)
(* (src/src/tetra_detector.py, src/src/sdr_manager.py).                    *)
(*                                                                         *)
(* Power values are whole dB, drawn from even integers so that the mean of *)
(* the two middle values taken by the median of an even-sized buffer is    *)
(* exact.  Time is in whole seconds.  A Python None is the empty tuple and *)
(* a present value v is the one-element tuple <<v>>.                       *)
(***************************************************************************)
EXTENDS Integers, Sequences, FiniteSets, TLC

VARIABLES
    config,               \* immutable configuration snapshot of the run
    env,                  \* what the receivers and the clock can produce
    detection_counts,     \* per device
    total_detections,
    noise_floor_history,  \* per device: deque(maxlen = noise_floor_window)
    noise_floor,          \* per device: None or the estimate
    dynamic_threshold,    \* per device
    signal_history,       \* per device: deque of <<timestamp, power_db>>
    peak_in_window,       \* per device
    previous_peak,        \* per device
    last_detection_peak,  \* per device
    last_detection_time,  \* per device: None or a timestamp
    results,              \* the result dicts of the tick in progress
    pos,                  \* position of the for loop of run() in results
    pc,                   \* "scan", "process", "display", "sleep", "exited"
    clock,                \* time.time()
    display,              \* None or what display_status last showed
    exc,                  \* the exception that ended run(), or "none"
    cleanup_runs,         \* number of times cleanup() ran
    log_lines,            \* detection messages written to the log this tick
    log_calls,            \* detection messages passed to log() this tick
    tick,                 \* number of the tick in progress
    readings,             \* history: per device, every processed reading
    scan_failed           \* history: devices whose acquisition failed this tick

vars == <<config, env, detection_counts, total_detections, noise_floor_history,
          noise_floor, dynamic_threshold, signal_history, peak_in_window,
          previous_peak, last_detection_peak, last_detection_time, results,
          pos, pc, clock, display, exc, cleanup_runs, log_lines, log_calls,
          tick, readings, scan_failed>>

perDevice == <<detection_counts, noise_floor_history, noise_floor,
               dynamic_threshold, signal_history, peak_in_window,
               previous_peak, last_detection_peak, last_detection_time>>

None == <<>>
Some(v) == <<v>>

-----------------------------------------------------------------------------
(* Bounds of the model *)

\* ticks explored with one device and a regular clock
MaxTicksSingle == 6
\* ticks explored with one device and irregular tick durations
MaxTicksJitter == 4
\* ticks explored when several devices are configured
MaxTicksMulti == 2

-----------------------------------------------------------------------------
(* Program constants *)

\* SDRDevice.scan: reading substituted when read_samples raises
Sentinel == -80
\* update_noise_floor: minimum population of the buffer
MinPopulation == 5
\* __init__: initial peak_in_window, previous_peak, last_detection_peak
InitialPeak == -100
\* display_status: stored peaks at or below this are not shown
PeakGuard == -90
\* display_status: baseline shown when no noise floor is established
Baseline == -80
\* display_status: grace period beyond the pulse window
Grace == 1

-----------------------------------------------------------------------------
(* Configurations and environments *)

\* config['sdr']['devices'][k]['index'] of the configured devices
DeviceLists == { <<0>>, <<0, 1>> }

\* config['detection'] and the device list.  The window size only matters in
\* adaptive mode; fixed-mode configurations take one value of it.
Configs ==
    { c \in [ adaptive              : BOOLEAN,
              threshold             : {-50, -95},
              noise_floor_window    : {4, 5, 6},
              threshold_margin      : {12},
              pulse_window_seconds  : {2},
              scan_interval         : {1},
              devices               : DeviceLists ] :
        c.adaptive \/ c.noise_floor_window = 5 }

\* power levels (dB) a receiver may report
Levels == {-92, -50, -40}
\* extra seconds a tick may take on top of scan_interval (acquisition latency)
Latencies == {0, 2}

\* An environment: the levels the receivers report, the latencies of a tick,
\* and the number of ticks explored in it.
Regular(n) == [ levels |-> Levels, latencies |-> {0}, ticks |-> n ]
Irregular(n) == [ levels |-> Levels, latencies |-> Latencies, ticks |-> n ]

Envs(c) ==
    IF Len(c.devices) = 1
    THEN { Regular(MaxTicksSingle), Irregular(MaxTicksJitter) }
    ELSE { Regular(MaxTicksMulti), Irregular(MaxTicksMulti) }

\* Device lists whose configured indexes are not 0 .. n-1 in order: swapped,
\* repeated, or starting at 1.  The constructor still keys the per-device
\* maps by 0 .. n-1.
OtherDeviceLists == { <<1, 0>>, <<0, 0>>, <<1>> }

AnyConfigs ==
    { c \in [ adaptive              : BOOLEAN,
              threshold             : {-50, -95},
              noise_floor_window    : {5},
              threshold_margin      : {12},
              pulse_window_seconds  : {2},
              scan_interval         : {1},
              devices               : {<<0, 1>>} \cup OtherDeviceLists ] : TRUE }

adaptive_enabled == config.adaptive
noise_floor_window == config.noise_floor_window
threshold_margin == config.threshold_margin
pulse_window_seconds == config.pulse_window_seconds
FixedThreshold == config.threshold
get_device_count == Len(config.devices)
States == 0 .. (get_device_count - 1)

MaxTicks == env.ticks

-----------------------------------------------------------------------------
(* Pure helpers *)

RECURSIVE Insert(_, _)
Insert(x, s) ==
    IF s = <<>> THEN <<x>>
    ELSE IF x <= Head(s) THEN <<x>> \o s
    ELSE <<Head(s)>> \o Insert(x, Tail(s))

RECURSIVE Sorted(_)
Sorted(s) == IF s = <<>> THEN <<>> ELSE Insert(Head(s), Sorted(Tail(s)))

RECURSIVE Sum(_)
Sum(s) == IF s = <<>> THEN 0 ELSE Head(s) + Sum(Tail(s))

mean(s) == Sum(s) \div Len(s)

\* np.median of a non-empty list

median(s) ==
    LET o == Sorted(s)
        n == Len(s)
    IN  IF n % 2 = 1 THEN o[(n + 1) \div 2]
        ELSE (o[n \div 2] + o[(n \div 2) + 1]) \div 2

\* deque(maxlen).append
deque_append_unbounded(q, x, maxlen) == Append(q, x)

deque_append(q, x, maxlen) ==
    IF maxlen = 0 THEN <<>>
    ELSE IF Len(q) >= maxlen THEN Append(Tail(q), x)
    ELSE Append(q, x)

RECURSIVE MaxPower(_)
MaxPower(q) ==
    IF Len(q) = 1 THEN q[1][2]
    ELSE LET m == MaxPower(Tail(q))
         IN  IF q[1][2] >= m THEN q[1][2] ELSE m

RECURSIVE DropOld(_, _)
DropOld(q, cutoff_time) ==
    IF q # <<>> /\ q[1][1] < cutoff_time THEN DropOld(Tail(q), cutoff_time)
    ELSE q

\* SDRDevice.scan of a live device (demo_mode false, sdr opened): sample is
\* None when read_samples raised, else the power it measured
scan_low(sample) == IF sample = None THEN InitialPeak ELSE sample[1]

scan(sample) == IF sample = None THEN Sentinel ELSE sample[1]

\* the comparison of scan_all and of run()
Exceeds_or_equal(power_db, threshold) == power_db >= threshold

Exceeds(power_db, threshold) == power_db > threshold

\* run(): a counter after an outcome (lines 303-305)
count_detection_twice(count, detected) ==
    IF detected THEN count + 2 ELSE count

\* a counter that stops at its first detection
count_detection_once(count, detected) ==
    IF detected /\ count = 0 THEN 1 ELSE count

count_detection(count, detected) ==
    IF detected THEN count + 1 ELSE count

-----------------------------------------------------------------------------
(* update_noise_floor: the new buffer, estimate and threshold of a device *)

update_noise_floor_all(device_index, power_db, is_signal) ==
    LET h0 == noise_floor_history[device_index]
        h  == deque_append(h0, power_db, noise_floor_window)
    IN  IF ~adaptive_enabled
        THEN [ history |-> h0, floor |-> noise_floor[device_index],
               threshold |-> dynamic_threshold[device_index] ]
        ELSE IF Len(h) >= MinPopulation
        THEN [ history |-> h, floor |-> Some(median(h)),
               threshold |-> median(h) + threshold_margin ]
        ELSE [ history |-> h, floor |-> noise_floor[device_index],
               threshold |-> dynamic_threshold[device_index] ]

update_noise_floor_stale(device_index, power_db, is_signal) ==
    LET h0 == noise_floor_history[device_index]
        h  == IF ~is_signal
              THEN deque_append(h0, power_db, noise_floor_window)
              ELSE h0
    IN  IF ~adaptive_enabled
        THEN [ history |-> h0, floor |-> noise_floor[device_index],
               threshold |-> dynamic_threshold[device_index] ]
        ELSE IF Len(h) >= MinPopulation
        THEN [ history |-> h, floor |-> Some(median(h)),
               threshold |-> dynamic_threshold[device_index] ]
        ELSE [ history |-> h, floor |-> noise_floor[device_index],
               threshold |-> dynamic_threshold[device_index] ]

update_noise_floor_early(device_index, power_db, is_signal) ==
    LET h0 == noise_floor_history[device_index]
        h  == IF ~is_signal
              THEN deque_append(h0, power_db, noise_floor_window)
              ELSE h0
    IN  IF ~adaptive_enabled
        THEN [ history |-> h0, floor |-> noise_floor[device_index],
               threshold |-> dynamic_threshold[device_index] ]
        ELSE IF Len(h) >= 1
        THEN [ history |-> h, floor |-> Some(median(h)),
               threshold |-> median(h) + threshold_margin ]
        ELSE [ history |-> h, floor |-> noise_floor[device_index],
               threshold |-> dynamic_threshold[device_index] ]

update_noise_floor(device_index, power_db, is_signal) ==
    LET h0 == noise_floor_history[device_index]
        h  == IF ~is_signal
              THEN deque_append(h0, power_db, noise_floor_window)
              ELSE h0
    IN  IF ~adaptive_enabled
        THEN [ history |-> h0, floor |-> noise_floor[device_index],
               threshold |-> dynamic_threshold[device_index] ]
        ELSE IF Len(h) >= MinPopulation
        THEN [ history |-> h, floor |-> Some(median(h)),
               threshold |-> median(h) + threshold_margin ]
        ELSE [ history |-> h, floor |-> noise_floor[device_index],
               threshold |-> dynamic_threshold[device_index] ]

-----------------------------------------------------------------------------
(* update_pulse_window: the new queue, peak and previous peak of a device *)

update_pulse_window_keep(device_index, power_db, current_time) ==
    LET q == Append(signal_history[device_index], <<current_time, power_db>>)
    IN  [ history |-> q, peak |-> MaxPower(q),
          previous |-> peak_in_window[device_index] ]

update_pulse_window_stale(device_index, power_db, current_time) ==
    LET appended    == Append(signal_history[device_index],
                              <<current_time, power_db>>)
        cutoff_time == current_time - pulse_window_seconds
        q           == DropOld(appended, cutoff_time)
        before      == DropOld(signal_history[device_index], cutoff_time)
    IN  [ history |-> q,
          peak |-> IF before # <<>> THEN MaxPower(before) ELSE InitialPeak,
          previous |-> peak_in_window[device_index] ]

update_pulse_window_late(device_index, power_db, current_time) ==
    LET appended    == Append(signal_history[device_index],
                              <<current_time, power_db>>)
        cutoff_time == current_time - pulse_window_seconds
        q           == DropOld(appended, cutoff_time)
    IN  [ history |-> q, peak |-> MaxPower(q), previous |-> MaxPower(q) ]

update_pulse_window(device_index, power_db, current_time) ==
    LET appended    == Append(signal_history[device_index],
                              <<current_time, power_db>>)
        cutoff_time == current_time - pulse_window_seconds
        q           == DropOld(appended, cutoff_time)
    IN  IF q # <<>>
        THEN [ history |-> q, peak |-> MaxPower(q),
               previous |-> peak_in_window[device_index] ]
        ELSE [ history |-> q, peak |-> power_db,
               previous |-> previous_peak[device_index] ]

-----------------------------------------------------------------------------
(* run(), lines 288-295: the threshold, verdict and noise floor reported for a
   reading; scanned is the verdict scan_all took against the fixed threshold *)

decide_after_update(device_idx, power_db, scanned) ==
    LET nf == update_noise_floor(device_idx, power_db, FALSE)
    IN  IF adaptive_enabled /\ nf.floor # None
        THEN [ threshold |-> nf.threshold,
               detected  |-> Exceeds(power_db, nf.threshold),
               floor     |-> nf.floor ]
        ELSE [ threshold |-> FixedThreshold,
               detected  |-> scanned,
               floor     |-> None ]

\* the same, reporting the configured threshold whatever the verdict used
decide_reports_fixed(device_idx, power_db, scanned) ==
    IF adaptive_enabled /\ noise_floor[device_idx] # None
    THEN [ threshold |-> FixedThreshold,
           detected  |-> Exceeds(power_db, dynamic_threshold[device_idx]),
           floor     |-> noise_floor[device_idx] ]
    ELSE [ threshold |-> FixedThreshold, detected |-> scanned, floor |-> None ]

decide(device_idx, power_db, scanned) ==
    IF adaptive_enabled /\ noise_floor[device_idx] # None
    THEN [ threshold |-> dynamic_threshold[device_idx],
           detected  |-> Exceeds(power_db, dynamic_threshold[device_idx]),
           floor     |-> noise_floor[device_idx] ]
    ELSE [ threshold |-> FixedThreshold,
           detected  |-> scanned,
           floor     |-> None ]

-----------------------------------------------------------------------------
(* The exceptions that end run() *)

\* signal_handler: sys.exit(0)
signal_handler == "SystemExit"

\* run(), lines 313-317: the detection message built from a result dict; the
\* noise floor and threshold are part of it only in adaptive mode with the
\* floor reported in the result
detection_message_bare(result) ==
    [ device      |-> result.device_index,
      power_db    |-> result.power_db,
      noise_floor |-> None,
      threshold   |-> None ]

detection_message(result) ==
    LET with_floor == adaptive_enabled /\ result.noise_floor # None
    IN  [ device      |-> result.device_index,
          power_db    |-> result.power_db,
          noise_floor |-> IF with_floor THEN result.noise_floor ELSE None,
          threshold   |-> IF with_floor THEN result.threshold ELSE None ]

\* run(): except KeyboardInterrupt
run_handles(e) == e = "KeyboardInterrupt"

-----------------------------------------------------------------------------
(* Initial state: after TetraDetector.__init__, at the top of the loop *)

InitState(c, e) ==
    /\ config = c
    /\ env = e
    /\ detection_counts = [d \in 0 .. (Len(c.devices) - 1) |-> 0]
    /\ total_detections = 0
    /\ noise_floor_history = [d \in 0 .. (Len(c.devices) - 1) |-> <<>>]
    /\ noise_floor = [d \in 0 .. (Len(c.devices) - 1) |-> None]
    /\ dynamic_threshold = [d \in 0 .. (Len(c.devices) - 1) |-> c.threshold]
    /\ signal_history = [d \in 0 .. (Len(c.devices) - 1) |-> <<>>]
    /\ peak_in_window = [d \in 0 .. (Len(c.devices) - 1) |-> InitialPeak]
    /\ previous_peak = [d \in 0 .. (Len(c.devices) - 1) |-> InitialPeak]
    /\ last_detection_peak = [d \in 0 .. (Len(c.devices) - 1) |-> InitialPeak]
    /\ last_detection_time = [d \in 0 .. (Len(c.devices) - 1) |-> None]
    /\ results = <<>>
    /\ pos = 1
    /\ pc = "scan"
    /\ clock = 0
    /\ display = None
    /\ exc = "none"
    /\ cleanup_runs = 0
    /\ log_lines = 0
    /\ log_calls = <<>>
    /\ tick = 1
    /\ readings = [d \in 0 .. (Len(c.devices) - 1) |-> <<>>]
    /\ scan_failed = {}

Init == \E c \in Configs : \E e \in Envs(c) : InitState(c, e)

\* the same, for any configured device list
InitAny == \E c \in AnyConfigs : \E e \in Envs(c) : InitState(c, e)

-----------------------------------------------------------------------------
(* Actions *)

\* SDRManager.scan_all: one iteration of its loop over the devices
ScanDevice ==
    /\ pc = "scan"
    /\ LET k == Len(results) + 1
       IN  \E sample \in {None} \cup {Some(p) : p \in env.levels} :
             LET power_db == scan(sample)
                 result   == [ device_index |-> config.devices[k],
                               power_db     |-> power_db,
                               detected     |-> Exceeds(power_db, FixedThreshold),
                               threshold    |-> None,
                               noise_floor  |-> None ]
             IN  /\ results' = Append(results, result)
                 /\ scan_failed' = IF sample = None
                                   THEN scan_failed \cup {config.devices[k]}
                                   ELSE scan_failed
                 /\ pc' = IF k = get_device_count THEN "process" ELSE "scan"
    /\ pos' = 1
    /\ UNCHANGED <<config, env, perDevice, total_detections, clock, display,
                   exc, cleanup_runs, log_lines, log_calls, tick, readings>>

\* run(): one iteration of the for loop over the results (lines 285-318);
\* write_raises says whether log_file.write raises on this iteration (logging
\* is enabled, the default, so a detection is written to the log file).
\* A device_index that is no key of the per-device maps raises KeyError: at
\* line 289 in adaptive mode, else in update_noise_floor (line 245 or 248)
\* after lines 294-295.
Process(write_raises) ==
    /\ pc = "process"
    /\ LET result     == results[pos]
           device_idx == result.device_index
           power_db   == result.power_db
       IN  IF device_idx \notin States
           THEN /\ ~write_raises
                /\ results' = IF adaptive_enabled THEN results
                              ELSE [results EXCEPT ![pos] =
                                     [result EXCEPT
                                        !.threshold = Some(FixedThreshold),
                                        !.noise_floor = None]]
                /\ exc' = "KeyError"
                /\ pc' = "exited"
                /\ cleanup_runs' = IF run_handles("KeyError")
                                   THEN cleanup_runs + 1 ELSE cleanup_runs
                /\ UNCHANGED <<perDevice, total_detections, readings,
                               log_lines, log_calls, pos>>
           ELSE
           LET verdict   == decide(device_idx, power_db, result.detected)
               threshold == verdict.threshold
               detected  == verdict.detected
               floor     == verdict.floor
               nf        == update_noise_floor(device_idx, power_db, detected)
               pw        == update_pulse_window(device_idx, power_db, clock)
           IN
           /\ write_raises => detected
           /\ results' = [results EXCEPT ![pos] =
                            [result EXCEPT !.threshold = Some(threshold),
                                           !.detected = detected,
                                           !.noise_floor = floor]]
           /\ noise_floor_history' =
                [noise_floor_history EXCEPT ![device_idx] = nf.history]
           /\ noise_floor' = [noise_floor EXCEPT ![device_idx] = nf.floor]
           /\ dynamic_threshold' =
                [dynamic_threshold EXCEPT ![device_idx] = nf.threshold]
           /\ signal_history' = [signal_history EXCEPT ![device_idx] = pw.history]
           /\ peak_in_window' = [peak_in_window EXCEPT ![device_idx] = pw.peak]
           /\ previous_peak' = [previous_peak EXCEPT ![device_idx] = pw.previous]
           /\ detection_counts' =
                [detection_counts EXCEPT ![device_idx] =
                    count_detection(@, detected)]
           /\ total_detections' = count_detection(total_detections, detected)
           /\ last_detection_peak' =
                [last_detection_peak EXCEPT ![device_idx] =
                    IF detected THEN pw.peak ELSE @]
           /\ last_detection_time' =
                [last_detection_time EXCEPT ![device_idx] =
                    IF detected THEN Some(clock) ELSE @]
           /\ readings' = [readings EXCEPT ![device_idx] =
                            Append(@, [ t |-> clock, power |-> power_db,
                                        detected |-> detected,
                                        failed |-> device_idx \in scan_failed ])]
           /\ log_calls' = IF detected
                           THEN Append(log_calls,
                                       detection_message(results'[pos]))
                           ELSE log_calls
           /\ log_lines' = IF detected /\ ~write_raises
                           THEN log_lines + 1 ELSE log_lines
           /\ IF write_raises
              THEN /\ exc' = "OSError"
                   /\ pc' = "exited"
                   /\ cleanup_runs' = IF run_handles("OSError")
                                      THEN cleanup_runs + 1 ELSE cleanup_runs
                   /\ pos' = pos
              ELSE /\ exc' = exc
                   /\ cleanup_runs' = cleanup_runs
                   /\ pos' = pos + 1
                   /\ pc' = IF pos = Len(results) THEN "display" ELSE "process"
    /\ UNCHANGED <<config, env, clock, display, tick, scan_failed>>

ProcessDevice == Process(FALSE)

\* the same iteration when the write of the detection message raises
ProcessDeviceLogFails == Process(TRUE)

\* display_status, line 195: the trend shown in the row of a device
trend(device_idx) ==
    LET peak      == peak_in_window[device_idx]
        prev_peak == previous_peak[device_idx]
    IN  IF peak > prev_peak + 1 THEN "up"
        ELSE IF peak < prev_peak - 1 THEN "down"
        ELSE "flat"

\* display_status with the timeout test of line 152 left out
display_status_no_timeout(current_time) ==
    LET rows == [k \in 1 .. Len(results) |-> trend(results[k].device_index)]
    IN  IF /\ last_detection_time[0] # None
           /\ last_detection_peak[0] > PeakGuard
        THEN [ power |-> last_detection_peak[0], label |-> "Last Detection",
               source |-> "detection", time |-> current_time, trends |-> rows ]
        ELSE IF noise_floor[0] # None
        THEN [ power |-> noise_floor[0][1], label |-> "No Signal",
               source |-> "floor", time |-> current_time, trends |-> rows ]
        ELSE [ power |-> Baseline, label |-> "No Signal",
               source |-> "baseline", time |-> current_time, trends |-> rows ]

\* display_status: the value of the main display (lines 143-162; source names
\* the branch taken) and the trends of the debug rows (lines 191-195, printed
\* when show_debug_info is set)
display_status(current_time) ==
    LET reset_timeout == pulse_window_seconds + Grace
        rows == [k \in 1 .. Len(results) |-> trend(results[k].device_index)]
    IN  IF /\ last_detection_time[0] # None
           /\ last_detection_peak[0] > PeakGuard
           /\ current_time - last_detection_time[0][1] <= reset_timeout
        THEN [ power |-> last_detection_peak[0], label |-> "Last Detection",
               source |-> "detection", time |-> current_time, trends |-> rows ]
        ELSE IF noise_floor[0] # None
        THEN [ power |-> noise_floor[0][1], label |-> "No Signal",
               source |-> "floor", time |-> current_time, trends |-> rows ]
        ELSE [ power |-> Baseline, label |-> "No Signal",
               source |-> "baseline", time |-> current_time, trends |-> rows ]

Display ==
    /\ pc = "display"
    /\ display' = Some(display_status(clock))
    /\ pc' = "sleep"
    /\ UNCHANGED <<config, env, perDevice, total_detections, results, pos,
                   clock, exc, cleanup_runs, log_lines, log_calls, tick,
                   readings,
                   scan_failed>>

\* time.sleep(scan_interval), back to the top of the loop, and the time the
\* next tick's acquisition takes before its first result is processed
Sleep ==
    /\ pc = "sleep"
    /\ tick < MaxTicks
    /\ \E latency \in env.latencies :
         clock' = clock + config.scan_interval + latency
    /\ tick' = tick + 1
    /\ results' = <<>>
    /\ scan_failed' = {}
    /\ log_lines' = 0
    /\ log_calls' = <<>>
    /\ pos' = 1
    /\ pc' = "scan"
    /\ UNCHANGED <<config, env, perDevice, total_detections, display, exc,
                   cleanup_runs, readings>>

\* SIGINT while run() is executing under main(): signal_handler raises
Sigint ==
    /\ pc # "exited"
    /\ exc' = signal_handler
    /\ cleanup_runs' = IF run_handles(signal_handler)
                       THEN cleanup_runs + 1 ELSE cleanup_runs
    /\ pc' = "exited"
    /\ UNCHANGED <<config, env, perDevice, total_detections, results, pos,
                   clock, display, log_lines, log_calls, tick, readings,
                   scan_failed>>

Next ==
    \/ ScanDevice
    \/ ProcessDevice
    \/ ProcessDeviceLogFails
    \/ Display
    \/ Sleep
    \/ Sigint

Spec == Init /\ [][Next]_vars

SpecAny == InitAny /\ [][Next]_vars

-----------------------------------------------------------------------------
(* Vocabulary of the properties, over the history of processed readings *)

Range(s) == { s[k] : k \in 1 .. Len(s) }

Max(S) == CHOOSE m \in S : \A x \in S : x <= m

LastN(s, n) == IF Len(s) <= n THEN s ELSE SubSeq(s, Len(s) - n + 1, Len(s))

IsNonSignal(r) == ~r.detected

\* the powers of the readings of device d whose tick had detected = false
NonSignalPowers(d) ==
    LET ns == SelectSeq(readings[d], IsNonSignal)
    IN  [k \in 1 .. Len(ns) |-> ns[k].power]

\* the k-th smallest value of s, by counting
OrderStat(s, k) ==
    CHOOSE v \in Range(s) :
        /\ Cardinality({j \in 1 .. Len(s) : s[j] < v}) < k
        /\ k <= Cardinality({j \in 1 .. Len(s) : s[j] <= v})

MedianOf(s) ==
    (OrderStat(s, (Len(s) + 1) \div 2) + OrderStat(s, (Len(s) \div 2) + 1)) \div 2

NumDetected(d) == Len(SelectSeq(readings[d], LAMBDA r : r.detected))

RECURSIVE TotalDetected(_)
TotalDetected(S) ==
    IF S = {} THEN 0
    ELSE LET d == CHOOSE y \in S : TRUE
         IN  NumDetected(d) + TotalDetected(S \ {d})

\* the maximum power among the readings rs inside the horizon of the last one
WindowMaxOf(rs) ==
    LET now == rs[Len(rs)].t
    IN  Max({ rs[k].power : k \in { j \in 1 .. Len(rs) :
                                      rs[j].t >= now - pulse_window_seconds } })

\* the maximum power among the readings of d inside the horizon of its last update
WindowMax(d) == WindowMaxOf(readings[d])

\* a step that is one iteration of the for loop of run()
ProcessStep == pc = "process" /\ results' # results

-----------------------------------------------------------------------------
(* C1..C10 *)

\* C1: in adaptive mode, for every device whose non-signal buffer holds at
\* least 5 readings, the buffer is exactly the last noise_floor_window readings
\* of the device that were classified non-signal and the noise-floor estimate
\* is their median.
C1_FloorIsMedianOfLastWindow ==
    adaptive_enabled =>
        \A d \in States :
            Len(noise_floor_history[d]) >= MinPopulation =>
                LET w == LastN(NonSignalPowers(d), noise_floor_window)
                IN  /\ noise_floor_history[d] = w
                    /\ noise_floor[d] = Some(MedianOf(w))

\* a full buffer has evicted its oldest reading and the floor is established
C1_Witness ==
    /\ adaptive_enabled
    /\ \E d \in States :
          /\ noise_floor_window >= MinPopulation
          /\ Len(NonSignalPowers(d)) > noise_floor_window
          /\ noise_floor[d] # None
          /\ Cardinality(Range(noise_floor_history[d])) >= 2

\* C2: whenever the noise floor of a device is set its dynamic threshold is
\* noise_floor + margin; and an iteration taken with adaptive mode disabled or
\* with the floor still unset decides against the fixed threshold exactly and
\* reports a null noise floor.
C2_ThresholdIsFloorPlusMargin ==
    /\ [](\A d \in States :
            noise_floor[d] # None =>
                dynamic_threshold[d] = noise_floor[d][1] + threshold_margin)
    /\ [][ (ProcessStep /\ (~adaptive_enabled
                             \/ noise_floor[results[pos].device_index] = None))
           => /\ results'[pos].threshold = Some(FixedThreshold)
              /\ results'[pos].noise_floor = None
              /\ results'[pos].detected
                   = (results[pos].power_db > FixedThreshold) ]_vars

\* the reading that establishes the floor was itself decided against the fixed
\* threshold, and the dynamic threshold now differs from the fixed one
C2_Witness ==
    /\ pc \in {"process", "display"}
    /\ pos > 1
    /\ LET r == results[pos - 1]
       IN  /\ r.noise_floor = None
           /\ r.threshold = Some(FixedThreshold)
           /\ noise_floor[r.device_index] # None
           /\ dynamic_threshold[r.device_index] # FixedThreshold

\* C3: an iteration whose verdict is detected = true leaves the non-signal
\* buffer of its device unchanged, and every buffer is a suffix of the
\* device's readings whose own tick had detected = false.
C3_DetectedNeverBuffered ==
    /\ [][ (ProcessStep /\ results'[pos].detected)
           => noise_floor_history' = noise_floor_history ]_vars
    /\ [](\A d \in States :
            noise_floor_history[d]
              = LastN(NonSignalPowers(d), Len(noise_floor_history[d])))

\* a device with a non-empty buffer whose latest reading was detected
C3_Witness ==
    /\ adaptive_enabled
    /\ \E d \in States :
          /\ noise_floor_history[d] # <<>>
          /\ readings[d] # <<>>
          /\ readings[d][Len(readings[d])].detected
          /\ noise_floor[d] # None

\* C4: after every pulse-window update the window peak of the device is the
\* maximum power among its readings with timestamp >= now - window_seconds.
C4_PeakIsWindowMax ==
    \A d \in States :
        readings[d] # <<>> => peak_in_window[d] = WindowMax(d)

\* a high reading has left the horizon and the peak reverted to lower ones
C4_Witness ==
    \E d \in States :
        /\ readings[d] # <<>>
        /\ peak_in_window[d] < Max({ r.power : r \in Range(readings[d]) })
        /\ Len(signal_history[d]) >= 2

\* C5: right after a display, a stored detection of device 0 with
\* now - T <= window_seconds + 1 is what is shown, and an older or absent one
\* gives the noise floor or the baseline.
C5_DisplayShowsRecentDetection ==
    (pc = "sleep" /\ display # None) =>
        LET shown == display[1]
            fallback == IF noise_floor[0] # None THEN noise_floor[0][1]
                        ELSE Baseline
        IN  IF /\ last_detection_time[0] # None
               /\ shown.time - last_detection_time[0][1]
                    <= pulse_window_seconds + Grace
            THEN shown.power = last_detection_peak[0]
            ELSE shown.power = fallback

\* C6: when SIGINT ends the loop started by main(), cleanup has run exactly
\* once.
C6_CleanupRunsOnceOnSigint ==
    (pc = "exited" /\ exc = signal_handler) => cleanup_runs = 1

\* C7: a failed acquisition gives the sentinel reading for that device, does
\* not end the loop, and the scan of the tick still covers every device; the
\* devices that did not fail keep the level their receiver reported.
C7_ScanFailureGivesSentinel ==
    /\ [](/\ \A k \in 1 .. Len(results) :
               IF results[k].device_index \in scan_failed
               THEN results[k].power_db = Sentinel
               ELSE results[k].power_db \in env.levels
          /\ pc \in {"process", "display", "sleep"}
               => Len(results) = get_device_count
          /\ \A d \in States : \A k \in 1 .. Len(readings[d]) :
               readings[d][k].failed => readings[d][k].power = Sentinel)
    /\ [][ scan_failed' # scan_failed /\ scan_failed' # {}
           => pc' \in {"scan", "process"} /\ exc' = "none" ]_vars

\* device 0 failed on the first tick, device 1 was still decided on it, and
\* the loop is in its second tick
C7_Witness ==
    /\ get_device_count = 2
    /\ tick = 2
    /\ readings[0] # <<>> /\ readings[0][1].failed
    /\ readings[1] # <<>> /\ ~readings[1][1].failed
    /\ readings[1][1].detected

\* C8: the run is never ended by an error of the log write.
C8_LogFailureDoesNotStopLoop ==
    ~(pc = "exited" /\ exc = "OSError")

\* C9: in fixed mode every reading is detected exactly when its power is
\* strictly above the fixed threshold, and the global count is the number of
\* detected readings.
C9_FixedModeDetection ==
    ~adaptive_enabled =>
        /\ \A d \in States : \A k \in 1 .. Len(readings[d]) :
              readings[d][k].detected
                = (readings[d][k].power > FixedThreshold)
        /\ total_detections = TotalDetected(States)

\* readings below, at and above the threshold: one detection
C9_Witness ==
    /\ ~adaptive_enabled
    /\ total_detections = 1
    /\ \E d \in States :
          /\ Len(readings[d]) >= 4
          /\ \E k \in 1 .. Len(readings[d]) :
                readings[d][k].power = FixedThreshold
          /\ \E k \in 1 .. Len(readings[d]) :
                readings[d][k].power < FixedThreshold
          /\ ~readings[d][Len(readings[d])].detected

\* C10: the counters never decrease; an iteration adds exactly 1 to the count
\* of its device and to the global count when detected = true and leaves them
\* unchanged otherwise; no other step changes them.
C10_CountersStepByOne ==
    [][ /\ total_detections' >= total_detections
        /\ \A d \in States : detection_counts'[d] >= detection_counts[d]
        /\ IF ProcessStep
           THEN LET d == results[pos].device_index
                    n == IF results'[pos].detected THEN 1 ELSE 0
                IN  /\ total_detections' = total_detections + n
                    /\ detection_counts' =
                         [detection_counts EXCEPT ![d] = @ + n]
           ELSE UNCHANGED <<detection_counts, total_detections>> ]_vars

\* both outcomes have been counted
C10_Witness ==
    /\ total_detections >= 2
    /\ \E d \in States :
          /\ detection_counts[d] >= 1
          /\ \E k \in 1 .. Len(readings[d]) : ~readings[d][k].detected

-----------------------------------------------------------------------------
(* C11..C20 *)

\* the per-device state of the device configured at position k
DeviceState(k) ==
    LET d == config.devices[k]
    IN  IF d \in States
        THEN <<noise_floor_history[d], noise_floor[d], dynamic_threshold[d],
               signal_history[d], peak_in_window[d], previous_peak[d],
               last_detection_peak[d], last_detection_time[d],
               detection_counts[d]>>
        ELSE <<>>

\* a step that processed the reading of the device at position pos
Processed == pc = "process" /\ readings' # readings

\* C11: for any configured device list, processing the reading of one device
\* leaves the buffer, floor, threshold, pulse window, peaks, stored detection
\* and count of every other configured device unchanged.
C11_OtherDevicesUnchanged ==
    [][ Processed =>
          \A k \in 1 .. get_device_count :
              k # pos => DeviceState(k)' = DeviceState(k) ]_vars

\* the display state of device 0 at the last display and at the one being made
NewDetection ==
    \E k \in 1 .. Len(results) :
        results[k].device_index = 0 /\ results[k].detected

TimedOut ==
    /\ last_detection_time[0] # None
    /\ clock - last_detection_time[0][1] > pulse_window_seconds + Grace

DisplayStep == pc = "display" /\ pc' = "sleep" /\ display # None

\* C12 as stated: between two consecutive displays the display state
\* (detection = RECENT_DETECTION, floor = QUIESCENT, baseline = COLD_START)
\* stays, or RECENT times out into QUIESCENT, or COLD_START enters QUIESCENT,
\* or QUIESCENT / COLD_START enters RECENT on a new detection.
C12_StateMachineAsStated ==
    [][ DisplayStep =>
          LET prev == display[1].source
              new  == display'[1].source
          IN  \/ new = prev
              \/ prev = "detection" /\ new = "floor" /\ TimedOut
              \/ prev = "baseline" /\ new = "floor"
              \/ prev \in {"floor", "baseline"} /\ new = "detection"
                   /\ NewDetection ]_vars

\* C12 amended: RECENT is shown only while the stored detection has not timed
\* out; it is left only by the timeout or by a new detection whose stored peak
\* is not above -90, into QUIESCENT when the floor is established and into
\* COLD_START otherwise; COLD_START enters QUIESCENT only with the floor
\* established; RECENT is entered only on a new detection; QUIESCENT never
\* returns to COLD_START.
C12_StateMachine ==
    [][ DisplayStep =>
          LET prev == display[1].source
              new  == display'[1].source
          IN  /\ new = "detection" =>
                    last_detection_time[0] # None /\ ~TimedOut
              /\ \/ new = prev
                 \/ /\ prev = "detection"
                    /\ new = (IF noise_floor[0] # None THEN "floor"
                              ELSE "baseline")
                    /\ \/ TimedOut
                       \/ NewDetection /\ last_detection_peak[0] <= PeakGuard
                 \/ prev = "baseline" /\ new = "floor" /\ noise_floor[0] # None
                 \/ prev \in {"floor", "baseline"} /\ new = "detection"
                      /\ NewDetection ]_vars

\* a stored detection above the guard has timed out with no floor established
C12_Witness ==
    /\ pc = "sleep"
    /\ display # None
    /\ display[1].source = "baseline"
    /\ last_detection_time[0] # None
    /\ last_detection_peak[0] > PeakGuard

\* C13: the threshold and floor reported for a reading are those the device
\* had before the reading was processed (the floor being the median of the
\* non-signal readings of earlier ticks), the verdict is taken against that
\* threshold, and the buffer takes the reading exactly when the verdict is
\* not detected.
C13_VerdictBeforeFloorUpdate ==
    [][ ProcessStep =>
          LET d        == results[pos].device_index
              p        == results[pos].power_db
              r        == results'[pos]
              adaptive == adaptive_enabled /\ noise_floor[d] # None
              before   == LastN(NonSignalPowers(d), noise_floor_window)
          IN  /\ r.threshold = Some(IF adaptive THEN dynamic_threshold[d]
                                    ELSE FixedThreshold)
              /\ r.noise_floor = (IF adaptive THEN noise_floor[d] ELSE None)
              /\ r.noise_floor # None => r.noise_floor = Some(MedianOf(before))
              /\ r.detected = (p > r.threshold[1])
              /\ noise_floor_history'[d] # noise_floor_history[d]
                   => ~r.detected
              /\ (adaptive_enabled /\ ~r.detected)
                   => /\ noise_floor_history'[d] # <<>>
                      /\ noise_floor_history'[d][Len(noise_floor_history'[d])]
                           = p ]_vars

\* the reading just processed moved the floor; its outcome reports the old one
C13_Witness ==
    /\ pc \in {"process", "display"}
    /\ pos > 1
    /\ LET r == results[pos - 1]
       IN  /\ r.noise_floor # None
           /\ r.noise_floor # noise_floor[r.device_index]
           /\ ~r.detected

\* C14: in adaptive mode the floor of a device is unset exactly when its
\* buffer holds fewer than 5 readings, it stays unset for a window size below
\* 5, and an outcome reporting no floor was decided against the fixed
\* threshold.
C14_FloorUnsetIffUnderPopulated ==
    adaptive_enabled =>
        /\ \A d \in States :
              /\ (noise_floor[d] = None)
                   <=> (Len(noise_floor_history[d]) < MinPopulation)
              /\ noise_floor_window < MinPopulation => noise_floor[d] = None
        /\ \A k \in 1 .. Len(results) :
              (results[k].threshold # None /\ results[k].noise_floor = None)
                => /\ results[k].threshold = Some(FixedThreshold)
                   /\ results[k].detected
                        = (results[k].power_db > FixedThreshold)

\* five non-signal readings seen with a window of 4: still no floor
C14_Witness ==
    /\ adaptive_enabled
    /\ noise_floor_window < MinPopulation
    /\ \E d \in States :
          /\ Len(NonSignalPowers(d)) >= MinPopulation
          /\ Len(noise_floor_history[d]) = noise_floor_window
          /\ noise_floor[d] = None

\* C15: in adaptive mode with the floor established, an iteration whose
\* verdict is detected leaves the buffer, the floor and the dynamic threshold
\* of its device as they were.
C15_FloorFrozenWhileDetected ==
    [][ (ProcessStep /\ adaptive_enabled
           /\ noise_floor[results[pos].device_index] # None
           /\ results'[pos].detected)
        => LET d == results[pos].device_index
           IN  /\ noise_floor_history'[d] = noise_floor_history[d]
               /\ noise_floor'[d] = noise_floor[d]
               /\ dynamic_threshold'[d] = dynamic_threshold[d] ]_vars

\* a reading at or below the fixed threshold was detected against the floor
C15_Witness ==
    /\ adaptive_enabled
    /\ \E d \in States :
          /\ noise_floor[d] # None
          /\ readings[d] # <<>>
          /\ readings[d][Len(readings[d])].detected
          /\ readings[d][Len(readings[d])].power <= FixedThreshold

\* C16: an iteration with detected = true stores (window peak after the
\* update with this reading, now), so the stored peak is at least the
\* reading's power; one with detected = false leaves the stored detection.
C16_StoredDetectionIsUpdatedPeak ==
    [][ ProcessStep =>
          LET d == results[pos].device_index
          IN  IF results'[pos].detected
              THEN /\ last_detection_peak'[d] = peak_in_window'[d]
                   /\ last_detection_time'[d] = Some(clock)
                   /\ last_detection_peak'[d] >= results[pos].power_db
                   /\ last_detection_peak'[d] = WindowMaxOf(readings'[d])
              ELSE /\ last_detection_peak'[d] = last_detection_peak[d]
                   /\ last_detection_time'[d] = last_detection_time[d] ]_vars

\* the stored peak comes from an earlier reading still inside the window
C16_Witness ==
    \E d \in States :
        /\ readings[d] # <<>>
        /\ readings[d][Len(readings[d])].detected
        /\ last_detection_time[d] = Some(readings[d][Len(readings[d])].t)
        /\ last_detection_peak[d] > readings[d][Len(readings[d])].power

\* C17 (for stored peaks above the display guard): right after a display,
\* every device whose own stored detection is recent has its stored peak as
\* the display value.
C17_DisplayPerDevice ==
    (pc = "sleep" /\ display # None) =>
        \A d \in States :
            (/\ last_detection_time[d] # None
             /\ last_detection_peak[d] > PeakGuard
             /\ display[1].time - last_detection_time[d][1]
                  <= pulse_window_seconds + Grace)
            => /\ display[1].source = "detection"
               /\ display[1].power = last_detection_peak[d]

\* C18: a buffer never holds more than noise_floor_window readings; a step
\* leaves it, or appends one reading to it, evicting its oldest reading when
\* and only when it was full.
C18_BufferBounded ==
    /\ [](\A d \in States : Len(noise_floor_history[d]) <= noise_floor_window)
    /\ [][ \A d \in States :
             LET h  == noise_floor_history[d]
                 h2 == noise_floor_history'[d]
             IN  \/ h2 = h
                 \/ /\ Len(h) < noise_floor_window
                    /\ Len(h2) = Len(h) + 1
                    /\ SubSeq(h2, 1, Len(h)) = h
                 \/ /\ Len(h) = noise_floor_window
                    /\ Len(h2) = Len(h)
                    /\ SubSeq(h2, 1, Len(h) - 1) = Tail(h) ]_vars

\* a full buffer whose oldest reading has been evicted
C18_Witness ==
    \E d \in States :
        /\ Len(noise_floor_history[d]) = noise_floor_window
        /\ Len(NonSignalPowers(d)) > noise_floor_window
        /\ noise_floor_history[d][1] # NonSignalPowers(d)[1]

\* C19: after a pulse-window update the queue of the device is non-empty and
\* ends with the reading just appended, every entry has
\* timestamp >= now - window_seconds, timestamps are non-decreasing, and the
\* peak is at least the latest reading's power.
C19_QueueWithinHorizon ==
    \A d \in States :
        readings[d] # <<>> =>
            LET q    == signal_history[d]
                last == readings[d][Len(readings[d])]
            IN  /\ q # <<>>
                /\ q[Len(q)] = <<last.t, last.power>>
                /\ \A k \in 1 .. Len(q) :
                      q[k][1] >= last.t - pulse_window_seconds
                /\ \A k \in 1 .. (Len(q) - 1) : q[k][1] <= q[k + 1][1]
                /\ peak_in_window[d] >= last.power

\* older readings have been evicted and the peak is above the latest reading
C19_Witness ==
    \E d \in States :
        /\ Len(signal_history[d]) >= 2
        /\ Len(signal_history[d]) < Len(readings[d])
        /\ peak_in_window[d] > readings[d][Len(readings[d])].power

\* the window peak of device d before its latest reading
PeakBefore(d) ==
    LET rs   == readings[d]
        n    == Len(rs) - 1
        then == rs[n].t
    IN  IF n = 0 THEN InitialPeak
        ELSE Max({ rs[k].power : k \in { j \in 1 .. n :
                                rs[j].t >= then - pulse_window_seconds } })

\* C20: after a pulse-window update previous_peak is the peak the device had
\* just before it (-100 on its first tick), and the trend displayed for a
\* device is rising exactly when its peak is more than 1 above that peak,
\* falling exactly when more than 1 below, flat otherwise.
C20_PreviousPeakAndTrend ==
    /\ [][ ProcessStep =>
             previous_peak'[results[pos].device_index]
               = peak_in_window[results[pos].device_index] ]_vars
    /\ [](\A d \in States :
            readings[d] # <<>> => previous_peak[d] = PeakBefore(d))
    /\ []((pc = "sleep" /\ display # None) =>
            \A k \in 1 .. Len(results) :
                LET d == results[k].device_index
                    t == display[1].trends[k]
                IN  /\ (t = "up") <=> (peak_in_window[d] > PeakBefore(d) + 1)
                    /\ (t = "down") <=> (peak_in_window[d] < PeakBefore(d) - 1)
                    /\ t \in {"up", "down", "flat"})

\* a falling trend is displayed
C20_Witness ==
    /\ pc = "sleep"
    /\ display # None
    /\ \E k \in 1 .. Len(results) :
          /\ display[1].trends[k] = "down"
          /\ peak_in_window[results[k].device_index] > InitialPeak

-----------------------------------------------------------------------------
(* C21..C24 *)

\* the detection event of an outcome that was processed: device and power,
\* and the noise floor and threshold when the outcome reports a floor
EventOf(r) ==
    [ device      |-> r.device_index,
      power_db    |-> r.power_db,
      noise_floor |-> r.noise_floor,
      threshold   |-> IF r.noise_floor # None THEN r.threshold ELSE None ]

\* the events of the detected outcomes of the tick, in processing order
EventsOfTick ==
    LET det == SelectSeq(results, LAMBDA r : r.detected)
    IN  [k \in 1 .. Len(det) |-> EventOf(det[k])]

\* C21: an iteration whose outcome is detected passes exactly one detection
\* message to log(), carrying the device, the power and (when the outcome
\* reports a noise floor) the floor and threshold; an iteration whose outcome
\* is not detected passes none; when the tick is rendered the messages passed
\* are exactly those of its detected outcomes, and rendering passes none.
C21_OneEventPerDetection ==
    /\ [][ ProcessStep =>
             log_calls' = IF results'[pos].detected
                          THEN Append(log_calls, EventOf(results'[pos]))
                          ELSE log_calls ]_vars
    /\ [](pc \in {"display", "sleep"} => log_calls = EventsOfTick)
    /\ [][ pc = "display" => log_calls' = log_calls ]_vars

\* a tick about to be rendered whose message carries floor and threshold
C21_Witness ==
    /\ pc = "display"
    /\ \E k \in 1 .. Len(log_calls) :
          /\ log_calls[k].noise_floor # None
          /\ log_calls[k].threshold # None

\* C22: for any configured device list, every device_index of a scan result
\* is a key of the per-device maps, and no iteration ends run() with a
\* KeyError.
C22_IndexIsStateKey ==
    /\ \A k \in 1 .. Len(results) : results[k].device_index \in States
    /\ exc # "KeyError"

\* C23: every outcome that reports a threshold has
\* detected = (power_db > that threshold), in fixed and in adaptive mode.
C23_VerdictMatchesReportedThreshold ==
    \A k \in 1 .. Len(results) :
        results[k].threshold # None
          => results[k].detected
               = (results[k].power_db > results[k].threshold[1])

\* an outcome decided against a dynamic threshold that differs from the fixed
\* one, with a power between the two
C23_Witness ==
    \E k \in 1 .. Len(results) :
        LET r == results[k]
        IN  /\ r.threshold # None
            /\ r.noise_floor # None
            /\ r.threshold[1] # FixedThreshold
            /\ r.detected # (r.power_db > FixedThreshold)

\* the sum of the per-device detection counts of devices 0 .. n
RECURSIVE SumCounts(_)
SumCounts(n) ==
    IF n < 0 THEN 0 ELSE detection_counts[n] + SumCounts(n - 1)

\* C24: between the iterations of the loop the global detection count is the
\* sum of the per-device detection counts.
C24_TotalIsSumOfCounts ==
    total_detections = SumCounts(get_device_count - 1)

\* two devices with different counts
C24_Witness ==
    /\ get_device_count = 2
    /\ detection_counts[0] = 2
    /\ detection_counts[1] = 1
    /\ total_detections = 3

====
